---- MODULE Spec2Model ----
(***************************************************************************)
(* A model of the JSON editor view of src/main.ts (class JsonEditorView):   *)
(* the document held in jsonData, the rendered fields of displayEditor,     *)
(* the onChange commit of a field, and the asynchronous load and save       *)
(* handlers of the two buttons.                                             *)
(*                                                                         *)
(* Strings are sequences of UTF-16 code units, as JavaScript strings are.   *)
(* A JSON value is a tagged record:                                         *)
(*   [t |-> "null"]            [t |-> "bool", b |-> TRUE]                   *)
(*   [t |-> "num", n |-> 1]    [t |-> "str", s |-> <<97>>]                  *)
(*   [t |-> "arr", a |-> <<v1, ..., vn>>]                                   *)
(*   [t |-> "obj", o |-> << [k |-> key, v |-> value], ... >>]               *)
(* The members of an object are kept in the order Object.keys and           *)
(* JSON.stringify enumerate them (the storage order).                       *)
(***************************************************************************)
EXTENDS Integers, Sequences, FiniteSets, Bags, TLC

\* ------------------------------------------------------------------ bounds

\* The number of user gestures (button clicks, field changes, closing the
\* view) in one behaviour.
MaxGestures == 3

\* ----------------------------------------------------------------- strings

\* String.prototype comparison used by Array.prototype.sort() with no
\* comparator: lexicographic on UTF-16 code units, a proper prefix first.
RECURSIVE StrLess(_, _)
StrLess(x, y) ==
    IF y = <<>> THEN FALSE
    ELSE IF x = <<>> THEN TRUE
    ELSE IF Head(x) # Head(y) THEN Head(x) < Head(y)
    ELSE StrLess(Tail(x), Tail(y))

\* The decimal digits of a natural number, as code units.
RECURSIVE NatToString(_)
NatToString(n) ==
    IF n < 10 THEN <<48 + n>>
    ELSE Append(NatToString(n \div 10), 48 + (n % 10))

\* Number::toString of an integer.
NumberToString(n) ==
    IF n < 0 THEN <<45>> \o NatToString(0 - n) ELSE NatToString(n)

\* The array index a property key denotes, or -1: a key is an array index
\* when it is the canonical decimal text of a natural number.
RECURSIVE DigitsValue(_, _)
DigitsValue(s, acc) ==
    IF s = <<>> THEN acc
    ELSE IF Head(s) < 48 \/ Head(s) > 57 THEN -1
    ELSE DigitsValue(Tail(s), acc * 10 + (Head(s) - 48))

ArrayIndex(key) ==
    IF key = <<>> \/ Len(key) > 9 THEN -1
    ELSE LET n == DigitsValue(key, 0)
         IN IF n >= 0 /\ NumberToString(n) = key THEN n ELSE -1

\* ------------------------------------------------------------------ values

JNull == [t |-> "null"]
JBool(b) == [t |-> "bool", b |-> b]
JNum(n) == [t |-> "num", n |-> n]
JStr(s) == [t |-> "str", s |-> s]
JArr(a) == [t |-> "arr", a |-> a]
JObj(o) == [t |-> "obj", o |-> o]

\* typeof value === "object" && value !== null
IsComposite(value) == value.t \in {"arr", "obj"}

\* Object.keys(data): the indices of an array as strings, the keys of an
\* object in storage order.
ObjectKeys(data) ==
    IF data.t = "arr" THEN [i \in 1..Len(data.a) |-> NumberToString(i - 1)]
    ELSE IF data.t = "obj" THEN [i \in 1..Len(data.o) |-> data.o[i].k]
    ELSE <<>>

\* The position of key among the members of an object, or 0.
MemberPos(o, key) ==
    IF \E i \in 1..Len(o) : o[i].k = key
    THEN CHOOSE i \in 1..Len(o) : o[i].k = key
    ELSE 0

\* data[key] for a key Object.keys(data) returned.
GetProp(data, key) ==
    IF data.t = "arr" THEN data.a[ArrayIndex(key) + 1]
    ELSE data.o[MemberPos(data.o, key)].v

\* Where a new property key is created among the members o of an ordinary
\* object: array-index keys first, ascending, then the other keys in the
\* order of their creation.
NewMemberPos(o, key) ==
    LET idx == ArrayIndex(key)
        before(i) == IF idx >= 0
                     THEN ArrayIndex(o[i].k) >= 0 /\ ArrayIndex(o[i].k) < idx
                     ELSE TRUE
    IN Cardinality({i \in 1..Len(o) : before(i)}) + 1

InsertAt(seq, pos, x) ==
    SubSeq(seq, 1, pos - 1) \o <<x>> \o SubSeq(seq, pos, Len(seq))

\* A faulty assignment: the property is deleted and created again, which
\* moves an existing key behind the others.
ObjPutMoveToEnd(o, key, value) ==
    LET rest == SelectSeq(o, LAMBDA m : m.k # key)
    IN InsertAt(rest, NewMemberPos(rest, key), [k |-> key, v |-> value])

\* data[key] = value on an object's members: an existing property keeps its
\* place, a new one is created.
ObjPut(o, key, value) ==
    LET p == MemberPos(o, key)
    IN IF p > 0 THEN [o EXCEPT ![p] = [k |-> key, v |-> value]]
       ELSE InsertAt(o, NewMemberPos(o, key), [k |-> key, v |-> value])

\* data[key] = value, for a key Object.keys(data) returned.
SetProp(data, key, value) ==
    IF data.t = "arr" THEN JArr([data.a EXCEPT ![ArrayIndex(key) + 1] = value])
    ELSE JObj(ObjPut(data.o, key, value))

\* The value reached from root by the keys of path.
RECURSIVE GetPath(_, _)
GetPath(root, path) ==
    IF path = <<>> THEN root
    ELSE GetPath(GetProp(root, Head(path)), Tail(path))

\* root after data[key] = value, where data is the object reached by the
\* keys of path but the last and key is the last.
RECURSIVE SetPath(_, _, _)
SetPath(root, path, value) ==
    IF Len(path) = 1 THEN SetProp(root, Head(path), value)
    ELSE SetProp(root, Head(path),
                 SetPath(GetProp(root, Head(path)), Tail(path), value))

\* String(value) for the values a field is made for.
ToDisplayString(value) ==
    IF value.t = "null" THEN <<110,117,108,108>>                \* "null"
    ELSE IF value.t = "bool"
         THEN IF value.b THEN <<116,114,117,101>>               \* "true"
              ELSE <<102,97,108,115,101>>                       \* "false"
    ELSE IF value.t = "num" THEN NumberToString(value.n)
    ELSE value.s

\* ------------------------------------------------------------------ render

\* Array.prototype.sort() with no comparator: ascending by StrLess, stable.
RECURSIVE SortInsert(_, _)
SortInsert(x, sorted) ==
    IF sorted = <<>> THEN <<x>>
    ELSE IF StrLess(x, Head(sorted)) THEN <<x>> \o sorted
    ELSE <<Head(sorted)>> \o SortInsert(x, Tail(sorted))

RECURSIVE Sort(_)
Sort(keys) ==
    IF keys = <<>> THEN <<>>
    ELSE SortInsert(keys[Len(keys)], Sort(SubSeq(keys, 1, Len(keys) - 1)))

\* A faulty display order: the keys as Object.keys returns them, not sorted.
unsortedKeys(data) == ObjectKeys(data)

\* const sortedKeys = Object.keys(data).sort();
sortedKeys(data) == Sort(ObjectKeys(data))

\* createFields(data, parentEl): the children appended to parentEl, in the
\* order they are appended. path is the keys leading from jsonData to data:
\* a field's onChange closes over (data, key), which is Append(path, key).
\*   a <details>: [kind, summary, path, open, children]
\*   a Setting with a text input: [kind, name, path, text]
RECURSIVE createFields(_, _)
createFields(data, path) ==
    LET keys == sortedKeys(data)
    IN [i \in 1..Len(keys) |->
          LET key == keys[i]
              value == GetProp(data, key)
          IN IF IsComposite(value)
             THEN [kind |-> "details", summary |-> key,
                   path |-> Append(path, key), open |-> FALSE,
                   children |-> createFields(value, Append(path, key))]
             ELSE [kind |-> "setting", name |-> key,
                   path |-> Append(path, key),
                   text |-> ToDisplayString(value)]]

\* The Setting fields among nodes and below them, in document order.
RECURSIVE Fields(_)
Fields(nodes) ==
    IF nodes = <<>> THEN <<>>
    ELSE (IF Head(nodes).kind = "setting" THEN <<Head(nodes)>>
          ELSE Fields(Head(nodes).children)) \o Fields(Tail(nodes))

\* The <details> groups among nodes and below them, in document order.
RECURSIVE Groups(_)
Groups(nodes) ==
    IF nodes = <<>> THEN <<>>
    ELSE (IF Head(nodes).kind = "details"
          THEN <<Head(nodes)>> \o Groups(Head(nodes).children)
          ELSE <<>>) \o Groups(Tail(nodes))

\* nodes after the user has typed text into the input of the field of path.
RECURSIVE TypeInto(_, _, _)
TypeInto(nodes, path, text) ==
    [i \in 1..Len(nodes) |->
        IF nodes[i].kind = "setting"
        THEN IF nodes[i].path = path THEN [nodes[i] EXCEPT !.text = text]
             ELSE nodes[i]
        ELSE [nodes[i] EXCEPT !.children = TypeInto(@, path, text)]]

\* nodes after a click on the <summary> of the group of path: its <details>
\* is expanded when it was collapsed and collapsed when it was expanded.
RECURSIVE Toggle(_, _)
Toggle(nodes, path) ==
    [i \in 1..Len(nodes) |->
        IF nodes[i].kind = "setting" THEN nodes[i]
        ELSE IF nodes[i].path = path THEN [nodes[i] EXCEPT !.open = ~@]
        ELSE [nodes[i] EXCEPT !.children = Toggle(@, path)]]

\* The nodes the user can reach: those not below a collapsed <details>.
RECURSIVE Visible(_)
Visible(nodes) ==
    IF nodes = <<>> THEN <<>>
    ELSE <<Head(nodes)>>
         \o (IF Head(nodes).kind = "details" /\ Head(nodes).open
             THEN Visible(Head(nodes).children) ELSE <<>>)
         \o Visible(Tail(nodes))

\* --------------------------------------------------------------- serialize

HexDigit(d) == IF d < 10 THEN 48 + d ELSE 87 + d

\* \uXXXX
UnicodeEscape(c) ==
    <<92, 117, HexDigit(c \div 4096), HexDigit((c \div 256) % 16),
      HexDigit((c \div 16) % 16), HexDigit(c % 16)>>

IsLeadSurrogate(c) == c >= 55296 /\ c <= 56319
IsTrailSurrogate(c) == c >= 56320 /\ c <= 57343

\* QuoteJSONString, without the enclosing quotes, from position i of s.
RECURSIVE QuoteFrom(_, _)
QuoteFrom(s, i) ==
    IF i > Len(s) THEN <<>>
    ELSE LET c == s[i]
         IN IF c = 34 THEN <<92, 34>> \o QuoteFrom(s, i + 1)
            ELSE IF c = 92 THEN <<92, 92>> \o QuoteFrom(s, i + 1)
            ELSE IF c = 8 THEN <<92, 98>> \o QuoteFrom(s, i + 1)
            ELSE IF c = 9 THEN <<92, 116>> \o QuoteFrom(s, i + 1)
            ELSE IF c = 10 THEN <<92, 110>> \o QuoteFrom(s, i + 1)
            ELSE IF c = 12 THEN <<92, 102>> \o QuoteFrom(s, i + 1)
            ELSE IF c = 13 THEN <<92, 114>> \o QuoteFrom(s, i + 1)
            ELSE IF c < 32 THEN UnicodeEscape(c) \o QuoteFrom(s, i + 1)
            ELSE IF IsLeadSurrogate(c) /\ i < Len(s) /\ IsTrailSurrogate(s[i + 1])
                 THEN <<c, s[i + 1]>> \o QuoteFrom(s, i + 2)
            ELSE IF IsLeadSurrogate(c) \/ IsTrailSurrogate(c)
                 THEN UnicodeEscape(c) \o QuoteFrom(s, i + 1)
            ELSE <<c>> \o QuoteFrom(s, i + 1)

QuoteJSONString(s) == <<34>> \o QuoteFrom(s, 1) \o <<34>>

RECURSIVE Spaces(_)
Spaces(n) == IF n = 0 THEN <<>> ELSE <<32>> \o Spaces(n - 1)

\* The parts of a sequence of strings joined by ",\n" and the indentation.
RECURSIVE JoinLines(_, _)
JoinLines(parts, indent) ==
    IF Len(parts) = 1 THEN Head(parts)
    ELSE Head(parts) \o <<44, 10>> \o Spaces(indent)
         \o JoinLines(Tail(parts), indent)

\* SerializeJSONProperty with a gap of two spaces, at indentation indent.
RECURSIVE Serialize(_, _)
Serialize(value, indent) ==
    IF value.t = "null" THEN <<110,117,108,108>>
    ELSE IF value.t = "bool"
         THEN IF value.b THEN <<116,114,117,101>> ELSE <<102,97,108,115,101>>
    ELSE IF value.t = "num" THEN NumberToString(value.n)
    ELSE IF value.t = "str" THEN QuoteJSONString(value.s)
    ELSE IF value.t = "arr"
         THEN IF value.a = <<>> THEN <<91, 93>>
              ELSE <<91, 10>> \o Spaces(indent + 2)
                   \o JoinLines([i \in 1..Len(value.a) |->
                                    Serialize(value.a[i], indent + 2)],
                                indent + 2)
                   \o <<10>> \o Spaces(indent) \o <<93>>
    ELSE IF value.o = <<>> THEN <<123, 125>>
         ELSE <<123, 10>> \o Spaces(indent + 2)
              \o JoinLines([i \in 1..Len(value.o) |->
                               QuoteJSONString(value.o[i].k) \o <<58, 32>>
                               \o Serialize(value.o[i].v, indent + 2)],
                           indent + 2)
              \o <<10>> \o Spaces(indent) \o <<125>>

\* A value with the members of every object put in display order.
RECURSIVE DisplayOrdered(_)
DisplayOrdered(value) ==
    IF value.t = "obj"
    THEN LET keys == sortedKeys(value)
         IN JObj([i \in 1..Len(keys) |->
                    [k |-> keys[i],
                     v |-> DisplayOrdered(GetProp(value, keys[i]))]])
    ELSE IF value.t = "arr"
    THEN JArr([i \in 1..Len(value.a) |-> DisplayOrdered(value.a[i])])
    ELSE value

\* A faulty serializer: the keys are written in display order.
JSONStringifyDisplayOrder(value) == Serialize(DisplayOrdered(value), 0)

\* JSON.stringify(this.jsonData, null, 2)
JSONStringify(value) == Serialize(value, 0)

\* ------------------------------------------------------------------- parse

\* The result of a parsing step: a failure (a SyntaxError is thrown), or a
\* value and the position after it.
ParseFail == [ok |-> FALSE]
ParseOk(value, next) == [ok |-> TRUE, v |-> value, i |-> next]

\* The code unit at position i of s, or -1 past the end.
At(s, i) == IF i >= 1 /\ i <= Len(s) THEN s[i] ELSE -1

\* JSON whitespace: tab, line feed, carriage return, space.
RECURSIVE SkipWs(_, _)
SkipWs(s, i) ==
    IF At(s, i) \in {9, 10, 13, 32} THEN SkipWs(s, i + 1) ELSE i

StartsWith(s, i, lit) ==
    /\ i + Len(lit) - 1 <= Len(s)
    /\ SubSeq(s, i, i + Len(lit) - 1) = lit

HexValue(c) ==
    IF c >= 48 /\ c <= 57 THEN c - 48
    ELSE IF c >= 97 /\ c <= 102 THEN c - 87
    ELSE IF c >= 65 /\ c <= 70 THEN c - 55
    ELSE -1

\* The characters of a JSON string from position i (after the opening
\* quote) to its closing quote, escapes decoded.
RECURSIVE ParseChars(_, _, _)
ParseChars(s, i, acc) ==
    LET c == At(s, i)
    IN IF c = 34 THEN ParseOk(acc, i + 1)
       ELSE IF c < 32 THEN ParseFail
       ELSE IF c # 92 THEN ParseChars(s, i + 1, Append(acc, c))
       ELSE LET e == At(s, i + 1)
            IN IF e \in {34, 47, 92} THEN ParseChars(s, i + 2, Append(acc, e))
               ELSE IF e = 98 THEN ParseChars(s, i + 2, Append(acc, 8))
               ELSE IF e = 102 THEN ParseChars(s, i + 2, Append(acc, 12))
               ELSE IF e = 110 THEN ParseChars(s, i + 2, Append(acc, 10))
               ELSE IF e = 114 THEN ParseChars(s, i + 2, Append(acc, 13))
               ELSE IF e = 116 THEN ParseChars(s, i + 2, Append(acc, 9))
               ELSE IF e = 117
                       /\ \A d \in 2..5 : HexValue(At(s, i + d)) >= 0
                    THEN ParseChars(s, i + 6,
                            Append(acc, HexValue(At(s, i + 2)) * 4096
                                        + HexValue(At(s, i + 3)) * 256
                                        + HexValue(At(s, i + 4)) * 16
                                        + HexValue(At(s, i + 5))))
               ELSE ParseFail

\* The end of the run of decimal digits that starts at position i.
RECURSIVE DigitsEnd(_, _)
DigitsEnd(s, i) ==
    IF At(s, i) >= 48 /\ At(s, i) <= 57 THEN DigitsEnd(s, i + 1) ELSE i

\* A JSON number at position i. The numbers of the model are the integers:
\* a fraction or an exponent is outside the texts the model reads.
ParseNumber(s, i) ==
    LET neg == At(s, i) = 45
        d == IF neg THEN i + 1 ELSE i
        e == DigitsEnd(s, d)
        digits == SubSeq(s, d, e - 1)
    IN IF e = d THEN ParseFail
       ELSE IF At(s, d) = 48 /\ e > d + 1 THEN ParseFail     \* a leading zero
       ELSE IF At(s, e) \in {46, 69, 101} THEN ParseFail
       ELSE ParseOk(JNum(IF neg THEN 0 - DigitsValue(digits, 0)
                         ELSE DigitsValue(digits, 0)), e)

RECURSIVE ParseValue(_, _)
RECURSIVE ParseMembers(_, _, _)
RECURSIVE ParseElements(_, _, _)

\* The members of an object from position i, after "{" or ",", added to acc.
ParseMembers(s, i, acc) ==
    LET j == SkipWs(s, i)
    IN IF At(s, j) # 34 THEN ParseFail
       ELSE LET key == ParseChars(s, j + 1, <<>>)
            IN IF ~key.ok THEN ParseFail
               ELSE LET c == SkipWs(s, key.i)
                    IN IF At(s, c) # 58 THEN ParseFail
                       ELSE LET val == ParseValue(s, c + 1)
                            IN IF ~val.ok THEN ParseFail
                               ELSE LET n == SkipWs(s, val.i)
                                        o == ObjPut(acc, key.v, val.v)
                                    IN IF At(s, n) = 44
                                       THEN ParseMembers(s, n + 1, o)
                                       ELSE IF At(s, n) = 125
                                       THEN ParseOk(JObj(o), n + 1)
                                       ELSE ParseFail

\* The elements of an array from position i, after "[" or ",", added to acc.
ParseElements(s, i, acc) ==
    LET val == ParseValue(s, i)
    IN IF ~val.ok THEN ParseFail
       ELSE LET n == SkipWs(s, val.i)
                a == Append(acc, val.v)
            IN IF At(s, n) = 44 THEN ParseElements(s, n + 1, a)
               ELSE IF At(s, n) = 93 THEN ParseOk(JArr(a), n + 1)
               ELSE ParseFail

\* A JSON value at position i, after whitespace.
ParseValue(s, i) ==
    LET j == SkipWs(s, i)
        c == At(s, j)
    IN IF c = 123
       THEN IF At(s, SkipWs(s, j + 1)) = 125
            THEN ParseOk(JObj(<<>>), SkipWs(s, j + 1) + 1)
            ELSE ParseMembers(s, j + 1, <<>>)
       ELSE IF c = 91
       THEN IF At(s, SkipWs(s, j + 1)) = 93
            THEN ParseOk(JArr(<<>>), SkipWs(s, j + 1) + 1)
            ELSE ParseElements(s, j + 1, <<>>)
       ELSE IF c = 34
       THEN LET str == ParseChars(s, j + 1, <<>>)
            IN IF str.ok THEN ParseOk(JStr(str.v), str.i) ELSE ParseFail
       ELSE IF c = 45 \/ (c >= 48 /\ c <= 57) THEN ParseNumber(s, j)
       ELSE IF StartsWith(s, j, <<116,114,117,101>>)            \* true
       THEN ParseOk(JBool(TRUE), j + 4)
       ELSE IF StartsWith(s, j, <<102,97,108,115,101>>)         \* false
       THEN ParseOk(JBool(FALSE), j + 5)
       ELSE IF StartsWith(s, j, <<110,117,108,108>>)            \* null
       THEN ParseOk(JNull, j + 4)
       ELSE ParseFail

\* JSON.parse(fileContent): the value, or a failure for a SyntaxError.
JSONParse(text) ==
    LET val == ParseValue(text, 1)
    IN IF val.ok /\ SkipWs(text, val.i) = Len(text) + 1 THEN val
       ELSE ParseFail

\* ------------------------------------------------------------- environment

\* The files the open picker can return: file.name and the result of
\* file.text().
Files ==
    << \* a.json: {"b":1,"a":{"c":true}}
       [name |-> <<97,46,106,115,111,110>>,
        text |-> <<123,34,98,34,58,49,44,34,97,34,58,123,34,99,34,58,
                   116,114,117,101,125,125>>],
       \* list.json: {"list":[10,2,33,[],[],[],[],[],[],[],{}],"～":null,"😀":"x"}
       \* where the last key is the one code point U+1F600
       [name |-> <<108,105,115,116,46,106,115,111,110>>,
        text |-> <<123,34,108,105,115,116,34,58,91,49,48,44,50,44,51,51,44,
                   91,93,44,91,93,44,91,93,44,91,93,44,91,93,44,91,93,44,
                   91,93,44,123,125,93,44,34,65374,34,58,110,117,108,108,44,
                   34,55357,56832,34,58,34,120,34,125>>],
       \* bad.json: {invalid
       [name |-> <<98,97,100,46,106,115,111,110>>,
        text |-> <<123,105,110,118,97,108,105,100>>],
       \* num.json: 7
       [name |-> <<110,117,109,46,106,115,111,110>>,
        text |-> <<55>>] >>

\* The texts a user types into a field: false, abc and 7.
EditTexts ==
    { <<102,97,108,115,101>>, <<97,98,99>>, <<55>> }

\* ------------------------------------------------------------------- state

VARIABLES
    window,      \* which of the two pickers the window object has
    viewState,   \* "constructed", "open" (after onOpen), "closed"
    jsonData,    \* this.jsonData
    jsonDataRef, \* the object this.jsonData refers to: 0 before any load,
                 \* n for the value returned by the n-th JSON.parse
    filePath,    \* this.filePath
    contentEl,   \* the children of contentEl: the two buttons and the tree,
                 \* and the object (data) the fields of the tree write into
    loads,       \* the fileButton.onclick handlers suspended at an await
    saves,       \* the saveButton.onclick handlers suspended at an await
    notices,     \* the texts of the Notice objects created, in order
    written,     \* the texts written and closed, with the suggested name
    gestures     \* the user gestures so far

vars == <<window, viewState, jsonData, jsonDataRef, filePath, contentEl, loads, saves,
          notices, written, gestures>>

\* The suspended handlers of a button are a bag: a handler is the await it is
\* suspended at (pc) and the locals it holds. A save handler also records, as
\* history, the serialization the document had at the click (atClick); the
\* code holds no such value.
Suspend(handlers, h) == handlers (+) SetToBag({h})
Resume(handlers, h) == handlers (-) SetToBag({h})

\* new Notice(text)
Notice(text) == notices' = Append(notices, text)

\* jsonData: unknown = null; filePath = ""; nothing is rendered yet.
Init ==
    /\ window \in SUBSET {"showOpenFilePicker", "showSaveFilePicker"}
    /\ viewState = "constructed"
    /\ jsonData = JNull
    /\ jsonDataRef = 0
    /\ filePath = <<>>
    /\ contentEl = [fileButton |-> FALSE, saveButton |-> FALSE, nodes |-> <<>>,
                     data |-> 0]
    /\ loads = EmptyBag
    /\ saves = EmptyBag
    /\ notices = <<>>
    /\ written = <<>>
    /\ gestures = 0

\* onOpen: the "Open JSON File" button is added to contentEl.
onOpen ==
    /\ viewState = "constructed"
    /\ viewState' = "open"
    /\ contentEl' = [contentEl EXCEPT !.fileButton = TRUE]
    /\ UNCHANGED <<window, jsonData, jsonDataRef, filePath, loads, saves, notices, written,
                   gestures>>

\* A faulty onClose: the document is written out when the view closes.
onCloseSaving ==
    /\ viewState = "open" /\ gestures < MaxGestures
    /\ gestures' = gestures + 1
    /\ viewState' = "closed"
    /\ contentEl' = [fileButton |-> FALSE, saveButton |-> FALSE, nodes |-> <<>>,
                     data |-> 0]
    /\ written' = Append(written, [suggestedName |-> filePath,
                                   text |-> JSONStringify(jsonData)])
    /\ UNCHANGED <<window, jsonData, jsonDataRef, filePath, loads, saves, notices>>

\* onClose: contentEl.empty().
onClose ==
    /\ viewState = "open" /\ gestures < MaxGestures
    /\ gestures' = gestures + 1
    /\ viewState' = "closed"
    /\ contentEl' = [fileButton |-> FALSE, saveButton |-> FALSE, nodes |-> <<>>,
                     data |-> 0]
    /\ UNCHANGED <<window, jsonData, jsonDataRef, filePath, loads, saves, notices, written>>

\* ----------------------------------------------------- fileButton.onclick

\* A click where the window has no showOpenFilePicker.
FileButtonClickUnsupported ==
    /\ viewState = "open" /\ contentEl.fileButton /\ gestures < MaxGestures
    /\ "showOpenFilePicker" \notin window
    /\ gestures' = gestures + 1
    /\ Notice("File picker not supported in this browser.")
    /\ UNCHANGED <<window, viewState, jsonData, jsonDataRef, filePath, contentEl, loads,
                   saves, written>>

\* A click: the handler runs to await showOpenFilePicker().
FileButtonClick ==
    /\ viewState = "open" /\ contentEl.fileButton /\ gestures < MaxGestures
    /\ "showOpenFilePicker" \in window
    /\ gestures' = gestures + 1
    /\ loads' = Suspend(loads, [pc |-> "showOpenFilePicker", file |-> 0])
    /\ UNCHANGED <<window, viewState, jsonData, jsonDataRef, filePath, contentEl, saves,
                   notices, written>>

\* The picker resolves with the handle of file f: the handler runs to
\* await fileHandle[0].getFile().
ShowOpenFilePickerResolved(h, f) ==
    /\ h.pc = "showOpenFilePicker"
    /\ loads' = Suspend(Resume(loads, h), [pc |-> "getFile", file |-> f])
    /\ UNCHANGED <<window, viewState, jsonData, jsonDataRef, filePath, contentEl, saves,
                   notices, written, gestures>>

\* The picker rejects (the user dismissed it, or it failed): the handler
\* ends with the rejection, nothing catches it.
ShowOpenFilePickerRejected(h) ==
    /\ h.pc = "showOpenFilePicker"
    /\ loads' = Resume(loads, h)
    /\ UNCHANGED <<window, viewState, jsonData, jsonDataRef, filePath, contentEl, saves,
                   notices, written, gestures>>

\* getFile() resolves: this.filePath = file.name, then await file.text().
GetFileResolved(h) ==
    /\ h.pc = "getFile"
    /\ filePath' = Files[h.file].name
    /\ loads' = Suspend(Resume(loads, h), [pc |-> "text", file |-> h.file])
    /\ UNCHANGED <<window, viewState, jsonData, jsonDataRef, contentEl, saves, notices,
                   written, gestures>>

\* getFile() rejects: the handler ends with the rejection.
GetFileRejected(h) ==
    /\ h.pc = "getFile"
    /\ loads' = Resume(loads, h)
    /\ UNCHANGED <<window, viewState, jsonData, jsonDataRef, filePath, contentEl, saves,
                   notices, written, gestures>>

\* The notice displayEditor creates for the document root.
DisplayNotice(root) ==
    IF IsComposite(root) THEN "JSON data displayed successfully!"
    ELSE "No valid JSON data to display."

\* displayEditor(): contentEl is emptied, the fields of root, which is the
\* object ref, are created when
\* root is an object or an array, and the "Save Changes" button is added.
displayEditor(root, ref) ==
    [fileButton |-> FALSE,
     data |-> ref,
     saveButton |-> TRUE,
     nodes |-> IF IsComposite(root) THEN createFields(root, <<>>) ELSE <<>>]

\* A faulty load: the keys of the document are put in display order while it
\* is displayed.
TextResolvedParsedSorting(h) ==
    /\ h.pc = "text"
    /\ LET parsed == JSONParse(Files[h.file].text)
       IN /\ parsed.ok
          /\ jsonData' = DisplayOrdered(parsed.v)
          /\ jsonDataRef' = jsonDataRef + 1
          /\ notices' = notices \o <<"File loaded successfully!",
                                     DisplayNotice(parsed.v)>>
          /\ contentEl' = displayEditor(parsed.v, jsonDataRef + 1)
    /\ loads' = Resume(loads, h)
    /\ UNCHANGED <<window, viewState, filePath, saves, written, gestures>>

\* A faulty load: the document is replaced and, when one was displayed
\* before, the fields of that one stay in contentEl.
TextResolvedParsedNoDisplay(h) ==
    /\ h.pc = "text"
    /\ LET parsed == JSONParse(Files[h.file].text)
       IN /\ parsed.ok
          /\ jsonData' = parsed.v
          /\ jsonDataRef' = jsonDataRef + 1
          /\ notices' = notices \o <<"File loaded successfully!",
                                     DisplayNotice(parsed.v)>>
          /\ contentEl' = IF contentEl.saveButton THEN contentEl
                          ELSE displayEditor(parsed.v, jsonDataRef + 1)
    /\ loads' = Resume(loads, h)
    /\ UNCHANGED <<window, viewState, filePath, saves, written, gestures>>

\* text() resolves with text JSON.parse accepts: the document is replaced
\* and displayed.
TextResolvedParsed(h) ==
    /\ h.pc = "text"
    /\ LET parsed == JSONParse(Files[h.file].text)
       IN /\ parsed.ok
          /\ jsonData' = parsed.v
          /\ jsonDataRef' = jsonDataRef + 1
          /\ notices' = notices \o <<"File loaded successfully!",
                                     DisplayNotice(parsed.v)>>
          /\ contentEl' = displayEditor(parsed.v, jsonDataRef + 1)
    /\ loads' = Resume(loads, h)
    /\ UNCHANGED <<window, viewState, filePath, saves, written, gestures>>

\* text() resolves with text JSON.parse throws on.
TextResolvedInvalid(h) ==
    /\ h.pc = "text"
    /\ ~JSONParse(Files[h.file].text).ok
    /\ Notice("Invalid JSON file.")
    /\ loads' = Resume(loads, h)
    /\ UNCHANGED <<window, viewState, jsonData, jsonDataRef, filePath, contentEl, saves,
                   written, gestures>>

\* text() rejects: the handler ends with the rejection.
TextRejected(h) ==
    /\ h.pc = "text"
    /\ loads' = Resume(loads, h)
    /\ UNCHANGED <<window, viewState, jsonData, jsonDataRef, filePath, contentEl, saves,
                   notices, written, gestures>>

\* ------------------------------------------------------- onChange (a field)

\* data[key] = newValue
Commit(root, path, newValue) == SetPath(root, path, JStr(newValue))

\* The user changes the text of the field of path to newValue: the input
\* holds newValue and onChange(newValue) runs, which assigns into the object
\* its closure holds; jsonData shows the assignment when that object is the
\* one it refers to.
Edit(path, newValue) ==
    /\ viewState = "open" /\ gestures < MaxGestures
    /\ gestures' = gestures + 1
    /\ jsonData' = IF contentEl.data = jsonDataRef
                   THEN Commit(jsonData, path, newValue)
                   ELSE jsonData
    /\ jsonDataRef' = jsonDataRef
    /\ contentEl' = [contentEl EXCEPT !.nodes = TypeInto(@, path, newValue)]
    /\ UNCHANGED <<window, viewState, filePath, loads, saves, notices, written>>

\* ------------------------------------------------------------- <details>

\* The user clicks the <summary> of the group of path.
ToggleDetails(path) ==
    /\ viewState = "open" /\ gestures < MaxGestures
    /\ gestures' = gestures + 1
    /\ contentEl' = [contentEl EXCEPT !.nodes = Toggle(@, path)]
    /\ UNCHANGED <<window, viewState, jsonData, jsonDataRef, filePath, loads, saves,
                   notices, written>>

\* ----------------------------------------------------- saveButton.onclick

\* A click, and confirm() answered with Cancel.
SaveDeclined ==
    /\ viewState = "open" /\ contentEl.saveButton /\ gestures < MaxGestures
    /\ gestures' = gestures + 1
    /\ UNCHANGED <<window, viewState, jsonData, jsonDataRef, filePath, contentEl, loads,
                   saves, notices, written>>

\* A confirmed click where the window has no showSaveFilePicker.
SaveButtonClickUnsupported ==
    /\ viewState = "open" /\ contentEl.saveButton /\ gestures < MaxGestures
    /\ "showSaveFilePicker" \notin window
    /\ gestures' = gestures + 1
    /\ Notice("Save file picker not supported in this browser.")
    /\ UNCHANGED <<window, viewState, jsonData, jsonDataRef, filePath, contentEl, loads,
                   saves, written>>

\* A confirmed click: the handler runs to await showSaveFilePicker(...).
SaveButtonClick ==
    /\ viewState = "open" /\ contentEl.saveButton /\ gestures < MaxGestures
    /\ "showSaveFilePicker" \in window
    /\ gestures' = gestures + 1
    /\ saves' = Suspend(saves, [pc |-> "showSaveFilePicker",
                                suggestedName |-> filePath, text |-> <<>>,
                                atClick |-> JSONStringify(jsonData)])
    /\ UNCHANGED <<window, viewState, jsonData, jsonDataRef, filePath, contentEl, loads,
                   notices, written>>

\* The save picker resolves: await newFileHandle.createWritable().
ShowSaveFilePickerResolved(h) ==
    /\ h.pc = "showSaveFilePicker"
    /\ saves' = Suspend(Resume(saves, h), [h EXCEPT !.pc = "createWritable"])
    /\ UNCHANGED <<window, viewState, jsonData, jsonDataRef, filePath, contentEl, loads,
                   notices, written, gestures>>

\* A faulty handler: the text handed to writable.write is the serialization
\* the document had at the click.
CreateWritableResolvedStale(h) ==
    /\ h.pc = "createWritable"
    /\ saves' = Suspend(Resume(saves, h),
                        [h EXCEPT !.pc = "write", !.text = h.atClick])
    /\ UNCHANGED <<window, viewState, jsonData, jsonDataRef, filePath,
                   contentEl, loads, notices, written, gestures>>

\* createWritable() resolves: the document is serialized now and handed to
\* writable.write.
CreateWritableResolved(h) ==
    /\ h.pc = "createWritable"
    /\ saves' = Suspend(Resume(saves, h),
                        [h EXCEPT !.pc = "write",
                                  !.text = JSONStringify(jsonData)])
    /\ UNCHANGED <<window, viewState, jsonData, jsonDataRef, filePath, contentEl, loads,
                   notices, written, gestures>>

\* A faulty handler: the success notice is shown once write() has resolved,
\* before the writable is closed.
WriteResolvedNotifying(h) ==
    /\ h.pc = "write"
    /\ saves' = Suspend(Resume(saves, h), [h EXCEPT !.pc = "close"])
    /\ Notice("File saved successfully!")
    /\ UNCHANGED <<window, viewState, jsonData, jsonDataRef, filePath, contentEl, loads,
                   written, gestures>>

\* write() resolves: await writable.close().
WriteResolved(h) ==
    /\ h.pc = "write"
    /\ saves' = Suspend(Resume(saves, h), [h EXCEPT !.pc = "close"])
    /\ UNCHANGED <<window, viewState, jsonData, jsonDataRef, filePath, contentEl, loads,
                   notices, written, gestures>>

\* close() resolves: the text is in the file.
CloseResolved(h) ==
    /\ h.pc = "close"
    /\ written' = Append(written, [suggestedName |-> h.suggestedName,
                                   text |-> h.text])
    /\ Notice("File saved successfully!")
    /\ saves' = Resume(saves, h)
    /\ UNCHANGED <<window, viewState, jsonData, jsonDataRef, filePath, contentEl, loads,
                   gestures>>

\* A faulty catch block: the rejection is swallowed without a Notice.
SaveRejectedSilent(h) ==
    /\ h.pc \in {"showSaveFilePicker", "createWritable", "write", "close"}
    /\ saves' = Resume(saves, h)
    /\ UNCHANGED <<window, viewState, jsonData, jsonDataRef, filePath, contentEl, loads,
                   notices, written, gestures>>

\* An await of the handler rejects (the picker dismissed or failing,
\* createWritable, write or close failing): the catch block.
SaveRejected(h) ==
    /\ h.pc \in {"showSaveFilePicker", "createWritable", "write", "close"}
    /\ Notice("Failed to save the file.")
    /\ saves' = Resume(saves, h)
    /\ UNCHANGED <<window, viewState, jsonData, jsonDataRef, filePath, contentEl, loads,
                   written, gestures>>

\* ----------------------------------------------------------- specification

\* The paths of the fields the user can type into.
VisibleFieldPaths ==
    LET ns == Visible(contentEl.nodes)
    IN {ns[n].path : n \in {m \in 1..Len(ns) : ns[m].kind = "setting"}}

\* The paths of the groups the user can expand or collapse.
VisibleGroupPaths ==
    LET ns == Visible(contentEl.nodes)
    IN {ns[n].path : n \in {m \in 1..Len(ns) : ns[m].kind = "details"}}

\* The paths of the fields in contentEl.
FieldPaths ==
    LET fs == Fields(contentEl.nodes) IN {fs[n].path : n \in 1..Len(fs)}

\* The text in the input of the field of path.
FieldText(path) ==
    LET fs == Fields(contentEl.nodes)
    IN fs[CHOOSE n \in 1..Len(fs) : fs[n].path = path].text

Next ==
    \/ onOpen
    \/ onClose
    \/ FileButtonClickUnsupported
    \/ FileButtonClick
    \/ \E h \in BagToSet(loads) : \E f \in 1..Len(Files) :
          ShowOpenFilePickerResolved(h, f)
    \/ \E h \in BagToSet(loads) : ShowOpenFilePickerRejected(h)
    \/ \E h \in BagToSet(loads) : GetFileResolved(h)
    \/ \E h \in BagToSet(loads) : GetFileRejected(h)
    \/ \E h \in BagToSet(loads) : TextResolvedParsed(h)
    \/ \E h \in BagToSet(loads) : TextResolvedInvalid(h)
    \/ \E h \in BagToSet(loads) : TextRejected(h)
    \/ \E path \in VisibleFieldPaths :
          \E newValue \in EditTexts \cup {FieldText(path)} :
             Edit(path, newValue)
    \/ \E path \in VisibleGroupPaths : ToggleDetails(path)
    \/ SaveDeclined
    \/ SaveButtonClickUnsupported
    \/ SaveButtonClick
    \/ \E h \in BagToSet(saves) : ShowSaveFilePickerResolved(h)
    \/ \E h \in BagToSet(saves) : CreateWritableResolved(h)
    \/ \E h \in BagToSet(saves) : WriteResolved(h)
    \/ \E h \in BagToSet(saves) : CloseResolved(h)
    \/ \E h \in BagToSet(saves) : SaveRejected(h)

Spec == Init /\ [][Next]_vars

\* -------------------------------------------------------------- properties

\* The object or array a value is, its leaves forgotten: the keys of every
\* object in storage order, the length and positions of every array.
RECURSIVE Shape(_)
Shape(value) ==
    IF value.t = "obj"
    THEN [t |-> "obj",
          o |-> [i \in 1..Len(value.o) |->
                    [k |-> value.o[i].k, v |-> Shape(value.o[i].v)]]]
    ELSE IF value.t = "arr"
    THEN [t |-> "arr", a |-> [i \in 1..Len(value.a) |-> Shape(value.a[i])]]
    ELSE [t |-> "leaf"]

\* Whether text can be read as a value of the tag (the type-preserving
\* commit of the specification): true and false for a Bool, the text of a
\* number for a Number, the empty text or null for a Null, any text for a
\* String.
Conforms(tag, text) ==
    IF tag = "bool" THEN text \in {<<116,114,117,101>>, <<102,97,108,115,101>>}
    ELSE IF tag = "num"
    THEN LET num == ParseNumber(text, 1) IN num.ok /\ num.i = Len(text) + 1
    ELSE IF tag = "null" THEN text \in {<<>>, <<110,117,108,108>>}
    ELSE TRUE

\* The step is onChange(newValue) of some field.
IsEdit(path, newValue) ==
    /\ path \in FieldPaths
    /\ newValue \in EditTexts \cup {FieldText(path)}
    /\ Edit(path, newValue)

EditInputs ==
    {<<path, newValue>> : path \in FieldPaths,
                          newValue \in EditTexts \cup
                                       {FieldText(p) : p \in FieldPaths}}

\* The code points of a string: a surrogate pair is one code point.
RECURSIVE CodePoints(_)
CodePoints(s) ==
    IF s = <<>> THEN <<>>
    ELSE IF Len(s) >= 2 /\ IsLeadSurrogate(s[1]) /\ IsTrailSurrogate(s[2])
    THEN <<65536 + (s[1] - 55296) * 1024 + (s[2] - 56320)>>
         \o CodePoints(SubSeq(s, 3, Len(s)))
    ELSE <<s[1]>> \o CodePoints(Tail(s))

\* The label a displayed child shows: the key it was created for.
Label(node) == IF node.kind = "details" THEN node.summary ELSE node.name

\* The displayed containers: the root, when displayEditor has rendered an
\* object or an array, and every group; each with its path and its
\* children in display order.
Containers ==
    LET gs == Groups(contentEl.nodes)
    IN (IF contentEl.saveButton /\ IsComposite(jsonData)
        THEN << [path |-> <<>>, children |-> contentEl.nodes] >>
        ELSE <<>>)
       \o [i \in 1..Len(gs) |-> [path |-> gs[i].path,
                                 children |-> gs[i].children]]

\* C1: an edit whose text conforms to the tag of the leaf keeps the tag: a
\* Number leaf edited with the text of a number holds a Number afterwards, a
\* Bool leaf edited with true or false holds a Bool.
C1_TypePreservingCommit ==
    [][\A in \in EditInputs :
          (IsEdit(in[1], in[2])
             /\ GetPath(jsonData, in[1]).t \in {"num", "bool"}
             /\ Conforms(GetPath(jsonData, in[1]).t, in[2]))
          => GetPath(jsonData', in[1]).t = GetPath(jsonData, in[1]).t]_vars

\* C2: an edit whose text does not conform to the tag of the leaf is
\* accepted: the path then holds the String of the raw text, which
\* serializes as a quoted string, and a notice has been emitted for it.
C2_GracefulFallback ==
    [][\A in \in EditInputs :
          (IsEdit(in[1], in[2]) /\ ~Conforms(GetPath(jsonData, in[1]).t, in[2]))
          => /\ GetPath(jsonData', in[1]) = JStr(in[2])
             /\ JSONStringify(GetPath(jsonData', in[1]))
                   = <<34>> \o in[2] \o <<34>>
             /\ Len(notices') = Len(notices) + 1]_vars

\* C3: no step but the completion of a load changes the keys of an object,
\* their storage order, or the length and positions of an array, whatever
\* leaf edits are committed; and the text handed to the write lists the keys
\* in that storage order.
C3_OrderPreservation ==
    [][/\ loads' = loads => Shape(jsonData') = Shape(jsonData)
       /\ \A h \in BagToSet(saves') :
             (h.pc = "write" /\ ~BagIn(h, saves))
             => /\ JSONParse(h.text).ok
                /\ Shape(JSONParse(h.text).v) = Shape(jsonData)]_vars

\* C3 happens: an edited document, whose storage order is not its display
\* order, has been written with its keys in the storage order of the file.
C3_Witness ==
    /\ written # <<>>
    /\ written[Len(written)].text = JSONStringify(jsonData)
    /\ IsComposite(jsonData)
    /\ ObjectKeys(jsonData) # sortedKeys(jsonData)
    /\ \E f \in 1..Len(Files) :
          /\ JSONParse(Files[f].text).ok
          /\ Shape(JSONParse(Files[f].text).v) = Shape(jsonData)
          /\ JSONParse(Files[f].text).v # jsonData

\* C4: the children of every displayed array are displayed in ascending
\* numeric index order 0, 1, 2, ..., n-1.
C4_NumericArrayOrder ==
    \A c \in 1..Len(Containers) :
        LET node == Containers[c]
            data == GetPath(jsonData, node.path)
        IN data.t = "arr"
           => /\ Len(node.children) = Len(data.a)
              /\ \A i \in 1..Len(node.children) :
                    Label(node.children[i]) = NumberToString(i - 1)

\* C5: at no time are two load or save operations of the view in flight
\* together.
C5_SingleInFlight ==
    BagCardinality(loads) + BagCardinality(saves) <= 1

\* C6: no step of a load whose text is not valid JSON changes the document
\* a view holds (its root and its source identifier), and the step that
\* finds the text invalid emits a notice.
C6_FailedParseNeutral ==
    [][\A h \in BagToSet(loads) :
          (h.file # 0 /\ ~JSONParse(Files[h.file].text).ok
             /\ contentEl.saveButton)
          => /\ (GetFileResolved(h) \/ TextResolvedInvalid(h))
                => (jsonData' = jsonData /\ filePath' = filePath)
             /\ TextResolvedInvalid(h)
                => notices' = Append(notices, "Invalid JSON file.")]_vars

\* C7: no step of a save handler changes the document, and the step that
\* ends a save without the text being written (the picker dismissed, or an
\* error) emits a notice of the failure.
C7_WriteOutcomes ==
    [][saves' # saves
       => /\ jsonData' = jsonData
          /\ filePath' = filePath
          /\ (BagCardinality(saves') < BagCardinality(saves)
                /\ written' = written)
             => notices' = Append(notices, "Failed to save the file.")]_vars

\* C7 happens: a save of an edited document has ended in failure.
C7_Witness ==
    /\ notices # <<>>
    /\ notices[Len(notices)] = "Failed to save the file."
    /\ saves = EmptyBag
    /\ written = <<>>
    /\ \E f \in 1..Len(Files) :
          /\ JSONParse(Files[f].text).ok
          /\ Shape(JSONParse(Files[f].text).v) = Shape(jsonData)
          /\ JSONParse(Files[f].text).v # jsonData

\* C8: a read that ends Cancelled changes nothing; a read that ends with an
\* error (getFile or text failing) changes nothing either and is reported
\* through a notice.
C8_ReadOutcomes ==
    [][\A h \in BagToSet(loads) :
          /\ ShowOpenFilePickerRejected(h)
             => (jsonData' = jsonData /\ filePath' = filePath)
          /\ (GetFileRejected(h) \/ TextRejected(h))
             => /\ jsonData' = jsonData /\ filePath' = filePath
                /\ Len(notices') = Len(notices) + 1]_vars

\* C9: committing the text a field displays leaves the document as it was:
\* the same value of the same type at the path, all else unchanged.
C9_IdempotentCommit ==
    [][\A path \in FieldPaths :
          Edit(path, FieldText(path)) => jsonData' = jsonData]_vars

\* The keys of the displayed object of a container, in display order.
Labels(node) == [i \in 1..Len(node.children) |-> Label(node.children[i])]

\* Whether labels are all of keys, in ascending lexicographic order of
\* their elements.
DisplayedInOrder(labels, keys) ==
    /\ {labels[i] : i \in 1..Len(labels)} = {keys[i] : i \in 1..Len(keys)}
    /\ Len(labels) = Len(keys)
    /\ \A i \in 1..Len(labels) - 1 : StrLess(labels[i], labels[i + 1])

\* The strings of a sequence as sequences of code points.
AsCodePoints(strings) == [i \in 1..Len(strings) |-> CodePoints(strings[i])]

NewWrites == {h \in BagToSet(saves') : h.pc = "write" /\ ~BagIn(h, saves)}

C12_NoImplicitPersistence ==
    [][/\ written' # written
          => \E h \in BagToSet(saves) :
                /\ h.pc = "close"
                /\ saves' = Resume(saves, h)
                /\ written' = Append(written,
                                     [suggestedName |-> h.suggestedName,
                                      text |-> h.text])
       /\ \A h \in NewWrites :
             \E g \in BagToSet(saves) :
                g.pc = "createWritable" /\ saves' = Suspend(Resume(saves, g), h)
       /\ BagCardinality(saves') > BagCardinality(saves)
          => /\ viewState = "open" /\ contentEl.saveButton
             /\ gestures' = gestures + 1
             /\ BagCardinality(saves') = BagCardinality(saves) + 1
       /\ (\/ loads' # loads \/ jsonData' # jsonData
           \/ contentEl' # contentEl \/ viewState' # viewState
           \/ (gestures' # gestures /\ saves' = saves))
          => (saves' = saves /\ written' = written)]_vars

\* C12 happens: a document was loaded and edited and the view closed, and
\* nothing has been written.
C12_Witness ==
    /\ viewState = "closed"
    /\ written = <<>> /\ saves = EmptyBag
    /\ \E f \in 1..Len(Files) :
          /\ Files[f].name = filePath
          /\ JSONParse(Files[f].text).ok
          /\ jsonData # JSONParse(Files[f].text).v
          /\ Shape(jsonData) = Shape(JSONParse(Files[f].text).v)

\* C13: building the display tree, sorted display order included, and
\* expanding or collapsing a group leave the values and the storage order of
\* the document as they are. The document held changes only by the commit of
\* an edit of a field, or by being replaced with the value parsed by a load,
\* which is then held exactly as it was parsed.
C13_RenderingReadOnly ==
    [][/\ jsonData' # jsonData
          => \/ /\ gestures' = gestures + 1
                /\ \E path \in FieldPaths :
                      jsonData' = Commit(jsonData, path, FieldText(path)')
             \/ loads' # loads
       /\ (loads' # loads /\ (contentEl' # contentEl \/ jsonData' # jsonData))
          => \E h \in BagToSet(loads) :
                /\ h.pc = "text" /\ loads' = Resume(loads, h)
                /\ JSONParse(Files[h.file].text).ok
                /\ jsonData' = JSONParse(Files[h.file].text).v
                /\ contentEl' = displayEditor(jsonData', jsonDataRef')
       /\ (contentEl' # contentEl /\ contentEl.saveButton /\ loads' = loads
             /\ Fields(contentEl'.nodes) = Fields(contentEl.nodes))
          => jsonData' = jsonData]_vars

\* C13 happens: a document whose display order is not its storage order has
\* been displayed and a group of it expanded, and it is as it was parsed.
C13_Witness ==
    /\ \E n \in 1..Len(Groups(contentEl.nodes)) :
          Groups(contentEl.nodes)[n].open
    /\ ObjectKeys(jsonData) # sortedKeys(jsonData)
    /\ \E f \in 1..Len(Files) :
          /\ JSONParse(Files[f].text).ok
          /\ jsonData = JSONParse(Files[f].text).v

\* The canonical text of a leaf value: true or false, the text of the
\* number, the string itself, the empty string for null.
CanonicalText(value) ==
    IF value.t = "null" THEN <<>>
    ELSE IF value.t = "bool"
         THEN (IF value.b THEN <<116, 114, 117, 101>>
               ELSE <<102, 97, 108, 115, 101>>)
    ELSE IF value.t = "num" THEN NumberToString(value.n)
    ELSE value.s

\* C14: when a document is displayed, every field shows the canonical text
\* of the value at its path: true or false for a boolean, the text of the
\* number for a number, the string itself for a string and the empty string
\* for null.
C14_CanonicalFieldText ==
    [][(loads' # loads /\ contentEl' # contentEl)
       => \A n \in 1..Len(Fields(contentEl'.nodes)) :
             LET field == Fields(contentEl'.nodes)[n]
             IN field.text = CanonicalText(GetPath(jsonData', field.path))]_vars

\* The paths of the leaves (null, boolean, number, string) of value, which is
\* at path; the path of a root that is a leaf is the empty path.
RECURSIVE LeafPaths(_, _)
LeafPaths(value, path) ==
    IF IsComposite(value)
    THEN UNION {LeafPaths(GetProp(value, ObjectKeys(value)[i]),
                          Append(path, ObjectKeys(value)[i])) :
                   i \in 1..Len(ObjectKeys(value))}
    ELSE {path}

\* The paths of the composite (object, array) children below value, which is
\* at path.
RECURSIVE CompositeChildPaths(_, _)
CompositeChildPaths(value, path) ==
    UNION {LET key == ObjectKeys(value)[i]
               child == GetProp(value, key)
           IN IF IsComposite(child)
              THEN {Append(path, key)}
                   \cup CompositeChildPaths(child, Append(path, key))
              ELSE {} :
              i \in 1..Len(ObjectKeys(value))}

\* C15: when a parsed document is displayed, the fields are in one-to-one
\* correspondence with the leaf paths of the document and the groups with
\* the paths of its composite children; a document whose root is a leaf has
\* one field, of the empty path.
C15_RenderModelAgreement ==
    [][(loads' # loads /\ contentEl' # contentEl)
       => LET fields == Fields(contentEl'.nodes)
              groups == Groups(contentEl'.nodes)
          IN /\ {fields[n].path : n \in 1..Len(fields)}
                   = LeafPaths(jsonData', <<>>)
             /\ Len(fields) = Cardinality(LeafPaths(jsonData', <<>>))
             /\ {groups[n].path : n \in 1..Len(groups)}
                   = CompositeChildPaths(jsonData', <<>>)
             /\ Len(groups) = Cardinality(CompositeChildPaths(jsonData', <<>>))]_vars

\* The notices shown in the step.
NewNotices == SubSeq(notices', Len(notices) + 1, Len(notices'))

\* C16: the success notice of a save is shown only in the step in which the
\* writable, having accepted the text, is closed and the text is in the
\* file. A step of a save that does not end it shows no notice, and the step
\* that ends a save shows exactly one notice: the success notice when the
\* text has been written, the failure notice otherwise. A confirmed click
\* that starts no save, the window having no save picker, shows the one notice
\* that says so.
C16_SaveCompletionOrdering ==
    [][/\ (\E n \in 1..Len(NewNotices) :
              NewNotices[n] = "File saved successfully!")
          => \E h \in BagToSet(saves) :
                /\ h.pc = "close" /\ h.text # <<>>
                /\ saves' = Resume(saves, h)
                /\ written' = Append(written,
                                     [suggestedName |-> h.suggestedName,
                                      text |-> h.text])
       /\ (saves' # saves
             /\ BagCardinality(saves') >= BagCardinality(saves))
          => notices' = notices
       /\ BagCardinality(saves') < BagCardinality(saves)
          => /\ BagCardinality(saves') = BagCardinality(saves) - 1
             /\ IF written' # written
                THEN NewNotices = <<"File saved successfully!">>
                ELSE NewNotices = <<"Failed to save the file.">>
       /\ (gestures' # gestures /\ saves' = saves /\ NewNotices # <<>>)
          => /\ Len(NewNotices) = 1
             /\ NewNotices[1] \in
                   {"File picker not supported in this browser.",
                    "Save file picker not supported in this browser."}]_vars

\* C16 happens: one save has ended with the failure notice and nothing
\* written, and another with the text written and the success notice.
C16_Witness ==
    /\ saves = EmptyBag /\ Len(written) = 1
    /\ \E m, n \in 1..Len(notices) :
          /\ notices[m] = "Failed to save the file."
          /\ notices[n] = "File saved successfully!"
    /\ Cardinality({n \in 1..Len(notices) :
                       notices[n] = "File saved successfully!"}) = 1

\* C17: the commit of an edit of the field of a leaf path writes into the
\* document jsonData holds, never into another one, and changes the value at
\* that path only: the document keeps its keys, their order and the value at
\* every other leaf path.
C17_EditLocality ==
    [][(/\ loads' = loads /\ contentEl'.saveButton
        /\ \/ jsonData' # jsonData
           \/ Fields(contentEl'.nodes) # Fields(contentEl.nodes))
       => \E path \in FieldPaths :
             /\ contentEl.data = jsonDataRef
             /\ jsonDataRef' = jsonDataRef
             /\ GetPath(jsonData', path) = JStr(FieldText(path)')
             /\ Shape(jsonData') = Shape(jsonData)
             /\ LeafPaths(jsonData', <<>>) = LeafPaths(jsonData, <<>>)
             /\ \A other \in LeafPaths(jsonData, <<>>) \ {path} :
                   GetPath(jsonData', other) = GetPath(jsonData, other)]_vars

\* C17 happens: in a displayed document with several leaves, one of them
\* inside a group, the leaf inside the group has been edited and the others
\* are as they were parsed.
C17_Witness ==
    /\ contentEl.saveButton /\ contentEl.data = jsonDataRef
    /\ \E f \in 1..Len(Files) : \E path \in FieldPaths :
          /\ JSONParse(Files[f].text).ok
          /\ Len(path) = 2
          /\ LeafPaths(JSONParse(Files[f].text).v, <<>>) = FieldPaths
          /\ Cardinality(FieldPaths) > 1
          /\ GetPath(jsonData, path) = JStr(FieldText(path))
          /\ GetPath(JSONParse(Files[f].text).v, path).t # "str"
          /\ \A other \in FieldPaths \ {path} :
                GetPath(jsonData, other)
                   = GetPath(JSONParse(Files[f].text).v, other)

\* C18: whenever no load is in flight and a document has been loaded, the
\* name that a save would suggest is the name of the file the document held
\* was parsed from, whatever loads there were before, failed ones and ones
\* whose reads completed out of order included.
C18_SourceIdentifierConsistency ==
    (loads = EmptyBag /\ jsonDataRef > 0)
    => \E f \in 1..Len(Files) :
          /\ Files[f].name = filePath
          /\ JSONParse(Files[f].text).ok
          /\ Shape(JSONParse(Files[f].text).v) = Shape(jsonData)

\* C19: the text a save hands to writable.write is the serialization of the
\* document as it is in that step, which comes after the save picker has
\* resolved; an edit committed between the click on the save button and
\* that step is in the text.
C19_SaveSnapshotPoint ==
    [][\A h \in NewWrites :
          /\ h.text = JSONStringify(jsonData)
          /\ jsonData' = jsonData
          /\ \E g \in BagToSet(saves) :
                /\ g.pc = "createWritable"
                /\ h = [g EXCEPT !.pc = "write", !.text = h.text]]_vars

\* C19 happens: a save has handed over, or written, a text that holds an edit
\* committed after the click on the save button.
C19_Witness ==
    \E h \in BagToSet(saves) :
       /\ h.pc \in {"write", "close"}
       /\ h.text # h.atClick
       /\ h.text = JSONStringify(jsonData)

====
